---- MODULE Spec2Model ----
(***************************************************************************)
(* Model of tie, a terminal image editor: the pixel buffer (image.rs), the *)
(* Canvas that pairs it with a clamped cursor (widget/canvas.rs) and the   *)
(* key-input command machine (command/keyinput.rs, keyconfig.rs).          *)
(***************************************************************************)
EXTENDS Integers, Sequences, FiniteSets, TLC

VARIABLES
    image,             \* Canvas.image : Image {path, width, height, data}
    cursor_coord,      \* Canvas.cursor_coord : (usize, usize)
    fs,                \* the file system: path -> file
    frame,             \* text handed to the terminal by the last operation, if it was render
    last_op,           \* the Canvas operation performed last
    result,            \* what the last Canvas operation returned
    panicked,          \* TRUE once an assertion of image.rs has failed
    npaint,            \* number of paint calls so far (bounded by MaxPaints)
    hist,              \* the history of a run: moves and paints made, or keys typed (SpecTyping)
    cmd_line_content,  \* KeyInput.cmd_line_content : String, as a sequence of characters
    event,             \* the terminal event consumed by the last KeyInput::read
    cmd,               \* what the last KeyInput::read returned
    input,             \* a command line handed to parse_cmd_line: prefix, tokens, runs of spaces
    parsed,            \* what parse_cmd_line returned for it
    opened,            \* what Image::open returned for the file at OpenedPath (SpecOpen only)
    palette,           \* Palette.colors : [Rgb; 6]
    palette_log,       \* the assignments made through Palette::color_mut so far
    programmed,        \* the commands ProgrammedEvent::new was called with
    cmd_stream,        \* ProgrammedEvent.remain_commands : Vec<Command>
    app,               \* position of App::main_loop, the command read last, counts of its steps
    inverted           \* a colour and what Rgb::opposite has made of it (SpecRgb only)

vars == <<image, cursor_coord, fs, frame, last_op, result, panicked, npaint, hist,
          cmd_line_content, event, cmd, input, parsed,
          opened, palette, palette_log, programmed, cmd_stream, app, inverted>>

canvas_vars == <<image, cursor_coord, fs, frame, last_op, result, panicked, npaint>>
keyinput_vars == <<cmd_line_content, event, cmd>>
grammar_vars == <<input, parsed>>
open_vars == <<opened>>
palette_vars == <<palette, palette_log>>
app_vars == <<programmed, cmd_stream, app>>
rgb_vars == <<inverted>>
other_vars == <<open_vars, palette_vars, app_vars, rgb_vars>>

\* ------------------------------------------------------------------ bounds
MaxW == 2
MaxH == 2
MaxPaints == 1
MaxMoves == 5
MaxLen == 3
MaxExtra == 2
MaxCmds == 3
MaxReads == 4
MaxSets == 2
MaxInverts == 2
MaxKeys == 5

\* ------------------------------------------------------------------ colours
Rgb(r, g, b) == <<r, g, b>>

\* opposite that subtracts from 256, in u8 arithmetic
opposite_256(c) == Rgb((256 - c[1]) % 256, (256 - c[2]) % 256, (256 - c[3]) % 256)

opposite(c) == Rgb(255 - c[1], 255 - c[2], 255 - c[3])

\* ------------------------------------------------------------------ files
Paths == {"p", "q"}
OpenedPath == "p"

NoFile == [exists |-> FALSE, header_ok |-> FALSE, frame_ok |-> FALSE, sync_ok |-> TRUE,
           color_type |-> "Rgb", bit_depth |-> 8, width |-> 0, height |-> 0, bytes |-> <<>>]

\* what png::Encoder writes for an 8-bit RGB image
PngFile(w, h, bytes) ==
    [exists |-> TRUE, header_ok |-> TRUE, frame_ok |-> TRUE, sync_ok |-> TRUE,
     color_type |-> "Rgb", bit_depth |-> 8, width |-> w, height |-> h, bytes |-> bytes]

\* a file that File::create truncated and whose encoding then failed
TruncatedFile == [NoFile EXCEPT !.exists = TRUE]

\* the colour of pixel (x, y) of the file the editor is started on: all different
FilePixel(x, y) == Rgb(10 + 20 * x, 30 + 40 * y, 127)

RECURSIVE FileBytes(_, _, _)
FileBytes(w, h, i) ==
    IF i >= w * h THEN <<>>
    ELSE FilePixel(i % w, i \div w) \o FileBytes(w, h, i + 1)

\* ------------------------------------------------------------------ Image
\* Result<Image, image::Error> of Image::open
Opened(img) == [ok |-> TRUE, err |-> "", val |-> img]
OpenErr(e) == [ok |-> FALSE, err |-> e, val |-> <<>>]

\* Result<(), Error> of an Image or Canvas operation; source is the wrapped error
Ok == [ok |-> TRUE, err |-> "", source |-> ""]
Err(e, src) == [ok |-> FALSE, err |-> e, source |-> src]

Span(c) == [fg |-> c, bg |-> c]

\* bytes.chunks(3 * width) mapped to rows of spans
Image_data(bytes, w, h) ==
    [y \in 1..h |->
        [x \in 1..w |->
            LET base == 3 * w * (y - 1) + 3 * (x - 1)
            IN  Span(Rgb(bytes[base + 1], bytes[base + 2], bytes[base + 3]))]]

open(files, path) ==
    LET f == files[path] IN
    IF ~f.exists THEN OpenErr("IO")
    ELSE IF ~f.header_ok THEN OpenErr("Decode")
    ELSE IF ~f.frame_ok THEN OpenErr("panic")
    ELSE IF f.color_type # "Rgb" \/ f.bit_depth # 8 THEN OpenErr("UnsupportedImgType")
    ELSE IF f.width * f.height * 3 # Len(f.bytes) THEN OpenErr("panic")
    ELSE IF ~f.sync_ok THEN OpenErr("IO")
    ELSE Opened([path |-> path, width |-> f.width, height |-> f.height,
             data |-> Image_data(f.bytes, f.width, f.height)])

width(img) == img.width
height(img) == img.height

assert_coord(img, coord) == coord[1] < width(img) /\ coord[2] < height(img)

bg_color(img, coord) == img.data[coord[2] + 1][coord[1] + 1].bg

fg_color_set(img, coord, c) ==
    [img EXCEPT !.data[coord[2] + 1][coord[1] + 1].fg = c]

bg_color_set(img, coord, c) ==
    [img EXCEPT !.data[coord[2] + 1][coord[1] + 1].bg = c]

\* into_text_with_cursor that inverts the background as well
into_text_with_cursor_both(img, coord) ==
    bg_color_set(fg_color_set(img, coord, opposite(bg_color(img, coord))),
                 coord, opposite(bg_color(img, coord))).data

into_text_with_cursor(img, coord) ==
    fg_color_set(img, coord, opposite(bg_color(img, coord))).data

\* paint that leaves the background as it was
Image_paint_fg_only(img, color, coord) ==
    fg_color_set(img, coord, color)

Image_paint(img, color, coord) ==
    bg_color_set(fg_color_set(img, coord, color), coord, color)

RECURSIVE rgb_vec_from(_, _)
rgb_vec_from(img, i) ==
    IF i >= width(img) * height(img) THEN <<>>
    ELSE bg_color(img, <<i % width(img), i \div width(img)>>) \o rgb_vec_from(img, i + 1)

\* what the file system does to a save: "io" fails File::create, "encode" fails
\* write_header or write_image_data, "flush" fails the write that the drop of
\* the png Writer and of the BufWriter make, whose error is ignored
SaveOutcomes == {"ok", "io", "encode", "flush"}

\* rgb_vec in the order bottom row first
rgb_vec_bottom_up(img) ==
    LET RECURSIVE from(_)
        from(i) ==
            IF i >= width(img) * height(img) THEN <<>>
            ELSE bg_color(img, <<i % width(img), height(img) - 1 - (i \div width(img))>>)
                    \o from(i + 1)
    IN  from(0)

rgb_vec(img) == rgb_vec_from(img, 0)

\* the file system after writing img to path
written(files, img, path, outcome) ==
    CASE outcome = "io" -> files
      [] outcome \in {"encode", "flush"} -> [files EXCEPT ![path] = TruncatedFile]
      [] OTHER -> [files EXCEPT ![path] = PngFile(width(img), height(img), rgb_vec(img))]

Image_save(outcome) ==
    CASE outcome = "io" -> Err("IO", "")
      [] outcome = "encode" -> Err("Encode", "")
      [] OTHER -> Ok

\* .map_err(Error::Image)
map_err_Image(r) == IF r.ok THEN r ELSE Err("Image", r.err)

\* save_as that forgets to remember the path
Image_save_as_keeps_path(img, path, outcome) == img

\* save_as that remembers the path before it writes
Image_save_as_path_first(img, path, outcome) == [img EXCEPT !.path = path]

Image_save_as(img, path, outcome) ==
    IF Image_save(outcome).ok THEN [img EXCEPT !.path = path] ELSE img

\* ------------------------------------------------------------------ Canvas
Directions == {"Up", "Down", "Left", "Right"}

saturating_sub(a, b) == IF a >= b THEN a - b ELSE 0
\* usize::MAX is out of reach: the cursor stays below a u32 dimension
saturating_add(a, b) == a + b
min(a, b) == IF a <= b THEN a ELSE b

\* moved without the clamp to the last column and row
moved_unclamped(coord, img, dir) ==
    CASE dir = "Up" -> <<coord[1], saturating_sub(coord[2], 1)>>
      [] dir = "Down" -> <<coord[1], saturating_add(coord[2], 1)>>
      [] dir = "Left" -> <<saturating_sub(coord[1], 1), coord[2]>>
      [] OTHER -> <<saturating_add(coord[1], 1), coord[2]>>

\* moved with the clamp off by one: to the dimension instead of the dimension - 1
moved_off_by_one(coord, img, dir) ==
    CASE dir = "Up" -> <<coord[1], saturating_sub(coord[2], 1)>>
      [] dir = "Down" -> <<coord[1], min(saturating_add(coord[2], 1), height(img))>>
      [] dir = "Left" -> <<saturating_sub(coord[1], 1), coord[2]>>
      [] OTHER -> <<min(saturating_add(coord[1], 1), width(img)), coord[2]>>

\* moved with Right and Down stepping along both axes
moved_diagonal(coord, img, dir) ==
    CASE dir = "Up" -> <<coord[1], saturating_sub(coord[2], 1)>>
      [] dir = "Down" -> <<min(saturating_add(coord[1], 1), width(img) - 1),
                           min(saturating_add(coord[2], 1), height(img) - 1)>>
      [] dir = "Left" -> <<saturating_sub(coord[1], 1), coord[2]>>
      [] OTHER -> <<min(saturating_add(coord[1], 1), width(img) - 1),
                    min(saturating_add(coord[2], 1), height(img) - 1)>>

moved(coord, img, dir) ==
    CASE dir = "Up" -> <<coord[1], saturating_sub(coord[2], 1)>>
      [] dir = "Down" -> <<coord[1], min(saturating_add(coord[2], 1), height(img) - 1)>>
      [] dir = "Left" -> <<saturating_sub(coord[1], 1), coord[2]>>
      [] OTHER -> <<min(saturating_add(coord[1], 1), width(img) - 1), coord[2]>>

NoFrame == <<>>
PaintColors == {Rgb(0, 0, 0)}

Op(name, arg) == [name |-> name, arg |-> arg]

Canvas_new(img) ==
    /\ image = img
    /\ cursor_coord = <<0, 0>>

\* `dimension as usize - 1` underflows (a panic) on a dimension of 0
sub_overflows(img, dir) ==
    \/ dir = "Down" /\ height(img) = 0
    \/ dir = "Right" /\ width(img) = 0

move_cursor(dir) ==
    /\ ~panicked
    /\ last_op' = Op("move_cursor", dir)
    /\ frame' = NoFrame
    /\ IF sub_overflows(image, dir)
       THEN /\ panicked' = TRUE
            /\ result' = Err("panic", "")
            /\ UNCHANGED cursor_coord
       ELSE /\ cursor_coord' = moved(cursor_coord, image, dir)
            /\ result' = Ok
            /\ UNCHANGED panicked
    /\ UNCHANGED <<image, fs, npaint>>

paint(color) ==
    /\ ~panicked
    /\ npaint < MaxPaints
    /\ npaint' = npaint + 1
    /\ last_op' = Op("paint", "")
    /\ frame' = NoFrame
    /\ IF assert_coord(image, cursor_coord)
       THEN /\ image' = Image_paint(image, color, cursor_coord)
            /\ result' = Ok
            /\ UNCHANGED panicked
       ELSE /\ panicked' = TRUE
            /\ result' = Err("panic", "")
            /\ UNCHANGED image
    /\ UNCHANGED <<cursor_coord, fs>>

save_as(path, outcome) ==
    /\ ~panicked
    /\ fs' = written(fs, image, path, outcome)
    /\ image' = Image_save_as(image, path, outcome)
    /\ result' = map_err_Image(Image_save(outcome))
    /\ last_op' = Op("save_as", path)
    /\ frame' = NoFrame
    /\ UNCHANGED <<cursor_coord, panicked, npaint>>

save(outcome) ==
    /\ ~panicked
    /\ fs' = written(fs, image, image.path, outcome)
    /\ result' = map_err_Image(Image_save(outcome))
    /\ last_op' = Op("save", "")
    /\ frame' = NoFrame
    /\ UNCHANGED <<image, cursor_coord, panicked, npaint>>

\* render that draws the cursor into the stored image instead of a clone
render_in_place ==
    /\ ~panicked
    /\ last_op' = Op("render", "")
    /\ IF assert_coord(image, cursor_coord)
       THEN /\ frame' = into_text_with_cursor(image, cursor_coord)
            /\ image' = [image EXCEPT !.data = into_text_with_cursor(image, cursor_coord)]
            /\ result' = Ok
            /\ UNCHANGED panicked
       ELSE /\ panicked' = TRUE
            /\ result' = Err("panic", "")
            /\ frame' = NoFrame
            /\ UNCHANGED image
    /\ UNCHANGED <<cursor_coord, fs, npaint>>

render ==
    /\ ~panicked
    /\ last_op' = Op("render", "")
    /\ IF assert_coord(image, cursor_coord)
       THEN /\ frame' = into_text_with_cursor(image, cursor_coord)
            /\ result' = Ok
            /\ UNCHANGED panicked
       ELSE /\ panicked' = TRUE
            /\ result' = Err("panic", "")
            /\ frame' = NoFrame
    /\ UNCHANGED <<image, cursor_coord, fs, npaint>>

\* Canvas::new on the image opened from a file
InitCanvasOn(file) ==
    /\ fs = [p \in Paths |-> IF p = OpenedPath THEN file ELSE NoFile]
    /\ Canvas_new(open(fs, OpenedPath).val)
    /\ frame = NoFrame
    /\ last_op = Op("new", "")
    /\ result = Ok
    /\ panicked = FALSE
    /\ npaint = 0

\* Canvas::new on the image opened from a w by h file
InitCanvasOf(w, h) == InitCanvasOn(PngFile(w, h, FileBytes(w, h, 0)))

InitCanvas == \E w \in 1..MaxW, h \in 1..MaxH : InitCanvasOf(w, h)

\* ------------------------------------------------------------------ Command
NoRgb == Rgb(0, 0, 0)
Command(op, dir, id, rgb, path) == [op |-> op, dir |-> dir, id |-> id, rgb |-> rgb, path |-> path]

Quit == Command("Quit", "", 0, NoRgb, <<>>)
Nop == Command("Nop", "", 0, NoRgb, <<>>)
Direction(dir) == Command("Direction", dir, 0, NoRgb, <<>>)
Palette(id) == Command("Palette", "", id, NoRgb, <<>>)
SetPalette(id, rgb) == Command("SetPalette", "", id, rgb, <<>>)
Save == Command("Save", "", 0, NoRgb, <<>>)
SaveAs(path) == Command("SaveAs", "", 0, NoRgb, path)

\* Option<T>; none carries a filler of T's shape
Some(v) == [some |-> TRUE, val |-> v]
NoCommand == [some |-> FALSE, val |-> Nop]
NoU8 == [some |-> FALSE, val |-> 0]

\* ------------------------------------------------------------------ KeyConfig
NUM_COLORS == 6
PaletteIDs == 0..(NUM_COLORS - 1)

\* the default table with the palette keys 'r' and 's' exchanged
KeyConfig_swapped ==
    [config |-> [c \in {"q", "h", "j", "k", "l", "w", "e", "r", "s", "d", "f"} |->
                    CASE c = "q" -> Quit
                      [] c = "h" -> Direction("Left")
                      [] c = "j" -> Direction("Down")
                      [] c = "k" -> Direction("Up")
                      [] c = "l" -> Direction("Right")
                      [] c = "w" -> Palette(0)
                      [] c = "e" -> Palette(1)
                      [] c = "r" -> Palette(3)
                      [] c = "s" -> Palette(2)
                      [] c = "d" -> Palette(4)
                      [] OTHER -> Palette(5)],
     cmd_line_prefix |-> ":",
     palette_id2char |-> <<"w", "e", "r", "s", "d", "f">>]

\* the default key configuration with the slot characters of ID2 and ID3 exchanged
KeyConfig_slots_exchanged ==
    [config |-> [c \in {"q", "h", "j", "k", "l", "w", "e", "r", "s", "d", "f"} |->
                    CASE c = "q" -> Quit
                      [] c = "h" -> Direction("Left")
                      [] c = "j" -> Direction("Down")
                      [] c = "k" -> Direction("Up")
                      [] c = "l" -> Direction("Right")
                      [] c = "w" -> Palette(0)
                      [] c = "e" -> Palette(1)
                      [] c = "r" -> Palette(2)
                      [] c = "s" -> Palette(3)
                      [] c = "d" -> Palette(4)
                      [] OTHER -> Palette(5)],
     cmd_line_prefix |-> ":",
     palette_id2char |-> <<"w", "e", "s", "r", "d", "f">>]

KeyConfig_default ==
    [config |-> [c \in {"q", "h", "j", "k", "l", "w", "e", "r", "s", "d", "f"} |->
                    CASE c = "q" -> Quit
                      [] c = "h" -> Direction("Left")
                      [] c = "j" -> Direction("Down")
                      [] c = "k" -> Direction("Up")
                      [] c = "l" -> Direction("Right")
                      [] c = "w" -> Palette(0)
                      [] c = "e" -> Palette(1)
                      [] c = "r" -> Palette(2)
                      [] c = "s" -> Palette(3)
                      [] c = "d" -> Palette(4)
                      [] OTHER -> Palette(5)],
     cmd_line_prefix |-> ":",
     palette_id2char |-> <<"w", "e", "r", "s", "d", "f">>]

palette_id2char(kc, id) == kc.palette_id2char[id + 1]

RECURSIVE char2palette_id_from(_, _, _)
char2palette_id_from(kc, ch, id) ==
    IF id >= NUM_COLORS THEN [some |-> FALSE, val |-> 0]
    ELSE IF palette_id2char(kc, id) = ch THEN Some(id)
    ELSE char2palette_id_from(kc, ch, id + 1)

char2palette_id(kc, ch) == char2palette_id_from(kc, ch, 0)

\* KeyConfig::get on a key code: only Char codes are bound
get(kc, code) ==
    IF code.code = "Char" /\ code.ch \in DOMAIN kc.config
    THEN Some(kc.config[code.ch])
    ELSE NoCommand

cmd_line_prefix(kc) == kc.cmd_line_prefix

\* ------------------------------------------------------------------ the command grammar
\* character classes of the regex crate, over the characters the model types
SpaceChar == {" "}
WhiteSpace == {" "}
DigitChars == <<"0", "1", "2", "3", "4", "5", "6", "7", "8", "9">>
DigitSet == {DigitChars[i] : i \in 1..10}
WordChars ==
    {"a", "b", "c", "d", "e", "f", "g", "h", "i", "j", "k", "l", "m", "n", "o", "p",
    "q", "r", "s", "t", "u", "v", "w", "x", "y", "z", "A", "B", "C", "D", "E", "F",
    "G", "H", "I", "J", "K", "L", "M", "N", "O", "P", "Q", "R", "S", "T", "U", "V",
    "W", "X", "Y", "Z", "0", "1", "2", "3", "4", "5", "6", "7", "8", "9", "_"}

digit_value(c) == (CHOOSE i \in 1..10 : DigitChars[i] = c) - 1

\* index of the first character at or after i that is not in class (Len(s) + 1 if none)
RECURSIVE skip(_, _, _)
skip(s, i, class) ==
    IF i <= Len(s) /\ s[i] \in class THEN skip(s, i + 1, class) ELSE i

\* the same for the complement of class
RECURSIVE skip_not(_, _, _)
skip_not(s, i, class) ==
    IF i <= Len(s) /\ s[i] \notin class THEN skip_not(s, i + 1, class) ELSE i

at(s, i, c) == i <= Len(s) /\ s[i] = c

\* parse_u8_from with wrapping arithmetic in place of the overflow check
RECURSIVE parse_u8_from_wrapping(_, _, _)
parse_u8_from_wrapping(ds, i, acc) ==
    IF i > Len(ds) THEN Some(acc)
    ELSE parse_u8_from_wrapping(ds, i + 1, (acc * 10 + digit_value(ds[i])) % 256)

\* str::parse::<u8> on a run of ASCII digits: checked multiply and add
RECURSIVE parse_u8_from(_, _, _)
parse_u8_from(ds, i, acc) ==
    IF i > Len(ds) THEN Some(acc)
    ELSE LET n == acc * 10 + digit_value(ds[i])
         IN  IF n > 255 THEN NoU8 ELSE parse_u8_from(ds, i + 1, n)

parse_u8(ds) == IF Len(ds) = 0 THEN NoU8 ELSE parse_u8_from(ds, 1, 0)

\* try_parse_quit with the pattern ^: *q$
try_parse_quit_tight(kc, s) ==
    LET a == skip(s, 2, SpaceChar)
    IN  IF at(s, 1, ":") /\ at(s, a, "q") /\ a = Len(s)
        THEN Some(Quit)
        ELSE NoCommand

\* ^: *q *$
try_parse_quit(kc, s) ==
    LET a == skip(s, 2, SpaceChar)
    IN  IF at(s, 1, ":") /\ at(s, a, "q") /\ skip(s, a + 1, SpaceChar) = Len(s) + 1
        THEN Some(Quit)
        ELSE NoCommand

\* try_parse_save with the pattern ^: *w, matching whatever follows
try_parse_save_loose(kc, s) ==
    LET a == skip(s, 2, SpaceChar)
    IN  IF at(s, 1, ":") /\ at(s, a, "w")
        THEN Some(Save)
        ELSE NoCommand

\* ^: *w *$
try_parse_save(kc, s) ==
    LET a == skip(s, 2, SpaceChar)
    IN  IF at(s, 1, ":") /\ at(s, a, "w") /\ skip(s, a + 1, SpaceChar) = Len(s) + 1
        THEN Some(Save)
        ELSE NoCommand

\* try_parse_save_as that loses the last character of the path
try_parse_save_as_short(kc, s) ==
    LET a == skip(s, 2, SpaceChar)
        b == skip(s, a + 1, SpaceChar)
        c == skip_not(s, b, WhiteSpace)
    IN  IF /\ at(s, 1, ":") /\ at(s, a, "w")
           /\ b > a + 1
           /\ c > b
           /\ skip(s, c, SpaceChar) = Len(s) + 1
        THEN Some(SaveAs(SubSeq(s, b, c - 2)))
        ELSE NoCommand

\* ^: *w +(\S+) *$
try_parse_save_as(kc, s) ==
    LET a == skip(s, 2, SpaceChar)
        b == skip(s, a + 1, SpaceChar)
        c == skip_not(s, b, WhiteSpace)
    IN  IF /\ at(s, 1, ":") /\ at(s, a, "w")
           /\ b > a + 1
           /\ c > b
           /\ skip(s, c, SpaceChar) = Len(s) + 1
        THEN Some(SaveAs(SubSeq(s, b, c - 1)))
        ELSE NoCommand

\* try_parse_set_palette with the green and blue channels exchanged
try_parse_set_palette_swapped(kc, s) ==
    LET a == skip(s, 2, SpaceChar)
        b == skip(s, a + 3, SpaceChar)
        c == skip(s, b + 1, SpaceChar)
        d == skip(s, c, DigitSet)
        e == skip(s, d, SpaceChar)
        f == skip(s, e, DigitSet)
        g == skip(s, f, SpaceChar)
        h == skip(s, g, DigitSet)
    IN  IF /\ at(s, 1, ":")
           /\ at(s, a, "s") /\ at(s, a + 1, "e") /\ at(s, a + 2, "t")
           /\ b > a + 3
           /\ b <= Len(s) /\ s[b] \in WordChars
           /\ c > b + 1
           /\ d > c /\ e > d
           /\ f > e /\ g > f
           /\ h > g
           /\ skip(s, h, SpaceChar) = Len(s) + 1
        THEN LET id == char2palette_id(kc, s[b])
                 r == parse_u8(SubSeq(s, c, d - 1))
                 gg == parse_u8(SubSeq(s, e, f - 1))
                 bb == parse_u8(SubSeq(s, g, h - 1))
             IN  IF id.some /\ r.some /\ gg.some /\ bb.some
                 THEN Some(SetPalette(id.val, Rgb(r.val, bb.val, gg.val)))
                 ELSE NoCommand
        ELSE NoCommand

\* ^: *set +(\w) +(\d+) +(\d+) +(\d+) *$
try_parse_set_palette(kc, s) ==
    LET a == skip(s, 2, SpaceChar)
        b == skip(s, a + 3, SpaceChar)
        c == skip(s, b + 1, SpaceChar)
        d == skip(s, c, DigitSet)
        e == skip(s, d, SpaceChar)
        f == skip(s, e, DigitSet)
        g == skip(s, f, SpaceChar)
        h == skip(s, g, DigitSet)
    IN  IF /\ at(s, 1, ":")
           /\ at(s, a, "s") /\ at(s, a + 1, "e") /\ at(s, a + 2, "t")
           /\ b > a + 3
           /\ b <= Len(s) /\ s[b] \in WordChars
           /\ c > b + 1
           /\ d > c /\ e > d
           /\ f > e /\ g > f
           /\ h > g
           /\ skip(s, h, SpaceChar) = Len(s) + 1
        THEN LET id == char2palette_id(kc, s[b])
                 r == parse_u8(SubSeq(s, c, d - 1))
                 gg == parse_u8(SubSeq(s, e, f - 1))
                 bb == parse_u8(SubSeq(s, g, h - 1))
             IN  IF id.some /\ r.some /\ gg.some /\ bb.some
                 THEN Some(SetPalette(id.val, Rgb(r.val, gg.val, bb.val)))
                 ELSE NoCommand
        ELSE NoCommand

or_else(first, second) == IF first.some THEN first ELSE second
unwrap_or(opt, default) == IF opt.some THEN opt.val ELSE default

\* parse_cmd_line that falls back to Quit
parse_cmd_line_default_quit(kc, s) ==
    unwrap_or(
        or_else(try_parse_quit(kc, s),
        or_else(try_parse_save(kc, s),
        or_else(try_parse_save_as(kc, s),
                try_parse_set_palette(kc, s)))),
        Quit)

parse_cmd_line(kc, s) ==
    unwrap_or(
        or_else(try_parse_quit(kc, s),
        or_else(try_parse_save(kc, s),
        or_else(try_parse_save_as(kc, s),
                try_parse_set_palette(kc, s)))),
        Nop)

\* ------------------------------------------------------------------ KeyInput
\* crossterm events: a key with its code, or something else
Key(code, ch) == [type |-> "Key", code |-> code, ch |-> ch]
Char(ch) == Key("Char", ch)
Enter == Key("Enter", "")
Backspace == Key("Backspace", "")
Tab == Key("Tab", "")
Esc == Key("Esc", "")
Resize == [type |-> "Resize", code |-> "", ch |-> ""]
Mouse == [type |-> "Mouse", code |-> "", ch |-> ""]
IoError == [type |-> "IoError", code |-> "", ch |-> ""]
NoEvent == [type |-> "None", code |-> "", ch |-> ""]

\* Result<Command, io::Error> of KeyInput::read
Read(c) == [status |-> "Ok", cmd |-> c]
ReadErr == [status |-> "Err", cmd |-> Nop]
NotRead == [status |-> "None", cmd |-> Nop]

\* pop that removes the first character instead of the last
pop_front(s) == IF Len(s) = 0 THEN s ELSE SubSeq(s, 2, Len(s))

pop(s) == IF Len(s) = 0 THEN s ELSE SubSeq(s, 1, Len(s) - 1)

\* update_cmd_line_content that clears the line before parsing it
update_clear_first(kc, content, keycode) ==
    CASE keycode.code = "Enter" ->
            [content |-> <<>>, cmd |-> parse_cmd_line(kc, <<>>)]
      [] keycode.code = "Char" ->
            [content |-> Append(content, keycode.ch), cmd |-> Nop]
      [] keycode.code = "Backspace" ->
            [content |-> pop(content), cmd |-> Nop]
      [] OTHER ->
            [content |-> content, cmd |-> Nop]

\* update_cmd_line_content that also answers a character with its key binding
update_bound_chars(kc, content, keycode) ==
    CASE keycode.code = "Enter" ->
            [content |-> <<>>, cmd |-> parse_cmd_line(kc, content)]
      [] keycode.code = "Char" ->
            [content |-> Append(content, keycode.ch), cmd |-> unwrap_or(get(kc, keycode), Nop)]
      [] keycode.code = "Backspace" ->
            [content |-> pop(content), cmd |-> Nop]
      [] OTHER ->
            [content |-> content, cmd |-> Nop]

\* update_cmd_line_content in which Enter leaves the line as it is
update_enter_keeps_line(kc, content, keycode) ==
    CASE keycode.code = "Enter" ->
            [content |-> content, cmd |-> parse_cmd_line(kc, content)]
      [] keycode.code = "Char" ->
            [content |-> Append(content, keycode.ch), cmd |-> Nop]
      [] keycode.code = "Backspace" ->
            [content |-> pop(content), cmd |-> Nop]
      [] OTHER ->
            [content |-> content, cmd |-> Nop]

\* update_cmd_line_content in which Backspace removes the typed text down to the prefix
update_backspace_to_prefix(kc, content, keycode) ==
    CASE keycode.code = "Enter" ->
            [content |-> <<>>, cmd |-> parse_cmd_line(kc, content)]
      [] keycode.code = "Char" ->
            [content |-> Append(content, keycode.ch), cmd |-> Nop]
      [] keycode.code = "Backspace" ->
            [content |-> IF Len(content) > 1 THEN SubSeq(content, 1, 1) ELSE <<>>, cmd |-> Nop]
      [] OTHER ->
            [content |-> content, cmd |-> Nop]

\* the new cmd_line_content and the returned command
update_cmd_line_content(kc, content, keycode) ==
    CASE keycode.code = "Enter" ->
            [content |-> <<>>, cmd |-> parse_cmd_line(kc, content)]
      [] keycode.code = "Char" ->
            [content |-> Append(content, keycode.ch), cmd |-> Nop]
      [] keycode.code = "Backspace" ->
            [content |-> pop(content), cmd |-> Nop]
      [] OTHER ->
            [content |-> content, cmd |-> Nop]

\* read_event in which Esc leaves the command line
read_event_esc_leaves(kc, content, op) ==
    IF Len(content) = 0
    THEN IF op.type = "Key" /\ op.code = "Char" /\ op.ch = ":"
         THEN [content |-> Append(content, ":"), cmd |-> Nop]
         ELSE IF op.type = "Key"
         THEN [content |-> content, cmd |-> unwrap_or(get(kc, op), Nop)]
         ELSE [content |-> content, cmd |-> Nop]
    ELSE IF op.type = "Key" /\ op.code = "Esc"
         THEN [content |-> <<>>, cmd |-> Nop]
         ELSE IF op.type = "Key"
         THEN update_cmd_line_content(kc, content, op)
         ELSE [content |-> content, cmd |-> Nop]

\* read_event without the arm for the prefix key
read_event_no_prefix(kc, content, op) ==
    IF Len(content) = 0
    THEN IF op.type = "Key"
         THEN [content |-> content, cmd |-> unwrap_or(get(kc, op), Nop)]
         ELSE [content |-> content, cmd |-> Nop]
    ELSE IF op.type = "Key"
         THEN update_cmd_line_content(kc, content, op)
         ELSE [content |-> content, cmd |-> Nop]

\* read_event in which any unbound character starts the command line
read_event_any_char_starts(kc, content, op) ==
    IF Len(content) = 0
    THEN IF op.type = "Key" /\ op.code = "Char" /\ ~get(kc, op).some
         THEN [content |-> Append(content, op.ch), cmd |-> Nop]
         ELSE IF op.type = "Key"
         THEN [content |-> content, cmd |-> unwrap_or(get(kc, op), Nop)]
         ELSE [content |-> content, cmd |-> Nop]
    ELSE IF op.type = "Key"
         THEN update_cmd_line_content(kc, content, op)
         ELSE [content |-> content, cmd |-> Nop]

\* read_event in which an event that is no key abandons the command line
read_event_resize_clears(kc, content, op) ==
    IF Len(content) = 0
    THEN IF op.type = "Key" /\ op.code = "Char" /\ op.ch = ":"
         THEN [content |-> Append(content, ":"), cmd |-> Nop]
         ELSE IF op.type = "Key"
         THEN [content |-> content, cmd |-> unwrap_or(get(kc, op), Nop)]
         ELSE [content |-> content, cmd |-> Nop]
    ELSE IF op.type = "Key"
         THEN update_cmd_line_content(kc, content, op)
         ELSE [content |-> <<>>, cmd |-> Nop]

\* the closure KeyInput::read maps over the event
read_event(kc, content, op) ==
    IF Len(content) = 0
    THEN IF op.type = "Key" /\ op.code = "Char" /\ op.ch = ":"
         THEN [content |-> Append(content, ":"), cmd |-> Nop]
         ELSE IF op.type = "Key"
         THEN [content |-> content, cmd |-> unwrap_or(get(kc, op), Nop)]
         ELSE [content |-> content, cmd |-> Nop]
    ELSE IF op.type = "Key"
         THEN update_cmd_line_content(kc, content, op)
         ELSE [content |-> content, cmd |-> Nop]

key_config == KeyConfig_default

\* the characters typed freely while the line is short
Chars == {":", " ", "!", "1", "q", "h", "j", "k", "l", "w", "e", "r", "s", "d", "f"}

\* the command lines of the tests, typed in full
TestLines == {
    <<":", "s", "e", "t", " ", "w", " ", "2", "5", "5", " ", "2", "5", "5", " ", "1", "2", "8">>,
    <<":", " ", " ", "s", "e", "t", " ", " ", "w", " ", "2", "5", "5", " ", " ", " ", "2", "5", "5", " ", " ", "1", "2", "8", " ", " ", ";">>,
    <<":", "s", "e", "t", " ", "w", " ", "9", "9", "9", " ", "2", "5", "5", " ", " ", "1", "2", "8">>,
    <<":", "s", "e", "t", " ", "W", " ", "2", "7", "5", " ", "2", "5", "5", " ", "1", "2", "8">>,
    <<":", "w", " ", "p", "a", "t", "h", "/", "t", "o", "/", "f", "i", "l", "e", ".", "p", "n", "g">>}

AllChars == Chars \cup UNION {{L[i] : i \in 1..Len(L)} : L \in TestLines}

is_prefix(s, t) == Len(s) <= Len(t) /\ SubSeq(t, 1, Len(s)) = s

\* the lines the model lets the user type: anything short, or a line of the tests
can_type(content, ch) ==
    \/ Len(content) < MaxLen /\ ch \in Chars
    \/ \E L \in TestLines : is_prefix(Append(content, ch), L)

Events == {Char(ch) : ch \in AllChars} \cup {Enter, Backspace, Tab, Esc, Resize, Mouse}

read(op) ==
    /\ op.code = "Char" => can_type(cmd_line_content, op.ch)
    /\ LET r == read_event(key_config, cmd_line_content, op)
       IN  /\ cmd_line_content' = r.content
           /\ cmd' = Read(r.cmd)
    /\ event' = op

\* event::read() fails: the closure does not run
read_fails ==
    /\ event' = IoError
    /\ cmd' = ReadErr
    /\ UNCHANGED cmd_line_content

InitKeyInput ==
    /\ cmd_line_content = <<>>
    /\ event = NoEvent
    /\ cmd = NotRead

\* ------------------------------------------------------------------ specifications
\* no command line handed to the parser yet
NoInput == [prefix |-> <<>>, tokens |-> <<>>, gaps |-> <<0>>]
Parsed(c) == [status |-> "Ok", cmd |-> c]
ParsePanic == [status |-> "panic", cmd |-> Nop]
NotParsed == [status |-> "None", cmd |-> Nop]

InitGrammar ==
    /\ input = NoInput
    /\ parsed = NotParsed

\* Palette::default()
Palette_default ==
    <<Rgb(0, 0, 0), Rgb(127, 127, 127), Rgb(255, 255, 255),
      Rgb(255, 0, 0), Rgb(0, 255, 0), Rgb(0, 0, 255)>>

\* nothing opened yet
NotOpened == OpenErr("None")

InitOpen == opened = NotOpened

\* Palette::default() with nothing assigned yet
InitPalette ==
    /\ palette = Palette_default
    /\ palette_log = <<>>

\* no App running
NoApp == [pc |-> "none", cmd |-> Nop, result |-> "None", ndraw |-> 0, nread |-> 0, napply |-> 0]

InitNoApp ==
    /\ programmed = <<>>
    /\ cmd_stream = <<>>
    /\ app = NoApp

NoColor == [of |-> Rgb(0, 0, 0), n |-> 0, val |-> Rgb(0, 0, 0)]

InitRgb == inverted = NoColor

InitOther ==
    /\ InitOpen
    /\ InitPalette
    /\ InitNoApp
    /\ InitRgb

Init ==
    /\ InitCanvas
    /\ InitKeyInput
    /\ InitOther
    /\ InitGrammar
    /\ hist = <<>>

MoveStep == \E dir \in Directions : move_cursor(dir)
PaintStep == \E color \in PaintColors : paint(color)
SaveAsStep == \E path \in Paths, outcome \in SaveOutcomes : save_as(path, outcome)
SaveStep == \E outcome \in SaveOutcomes : save(outcome)

\* a Canvas under any sequence of its operations
NextCanvas ==
    /\ \/ MoveStep
       \/ PaintStep
       \/ SaveAsStep
       \/ SaveStep
       \/ render
    /\ UNCHANGED <<hist, keyinput_vars, grammar_vars, other_vars>>

SpecCanvas == Init /\ [][NextCanvas]_vars

\* a Canvas on a 2 by 2 image under any sequence of its operations
InitSaves ==
    /\ InitCanvasOf(2, 2)
    /\ InitKeyInput
    /\ InitOther
    /\ InitGrammar
    /\ hist = <<>>

SpecSaves == InitSaves /\ [][NextCanvas]_vars

\* a Canvas that is only moved, with the moves remembered
MoveHistStep ==
    \E dir \in Directions :
        /\ Len(hist) < MaxMoves
        /\ move_cursor(dir)
        /\ hist' = Append(hist, dir)
        /\ UNCHANGED <<keyinput_vars, grammar_vars, other_vars>>

SpecMoves == Init /\ [][MoveHistStep]_vars

\* a KeyInput under any sequence of events
ReadStep == \E op \in Events : read(op)

NextKeyInput ==
    /\ \/ ReadStep
       \/ read_fails
    /\ UNCHANGED <<canvas_vars, hist, grammar_vars, other_vars>>

\* the Canvas plays no part here: one image stands for all
InitInput ==
    /\ InitCanvasOf(1, 1)
    /\ InitKeyInput
    /\ InitOther
    /\ InitGrammar
    /\ hist = <<>>

SpecKeyInput == InitInput /\ [][NextKeyInput]_vars

\* ------------------------------------------------------------------ typing, key by key
\* the keys of the typed lines: ":q", ":w", ":w p", ":s" and their like
TypedKeys == {Char(ch) : ch \in {":", "q", "w", " ", "p", "s"}} \cup {Enter, Backspace}

\* one KeyInput::read, noted with the line before and after it
type_key(op) ==
    /\ Len(hist) < MaxKeys
    /\ read(op)
    /\ hist' = Append(hist, [key |-> op, cmd |-> cmd',
                             before |-> cmd_line_content, after |-> cmd_line_content'])
    /\ UNCHANGED <<canvas_vars, grammar_vars, other_vars>>

NextTyping == \E op \in TypedKeys : type_key(op)

SpecTyping == InitInput /\ [][NextTyping]_vars

\* ------------------------------------------------------------------ the grammar on its own
\* tokens of command lines
T_q == <<"q">>
T_w == <<"w">>
T_set == <<"s", "e", "t">>
T_x == <<"x">>
T_a == <<"a">>
T_b == <<"b">>
T_path == <<"p", "a", "t", "h">>
T_file == <<"p", "a", "t", "h", "/", "t", "o", "/", "f", "i", "l", "e", ".", "p", "n", "g">>
T_semi == <<";">>
T_128semi == <<"1", "2", "8", ";">>

\* decimal numerals with the integers they denote
Numerals == {
    [text |-> <<"0">>, value |-> 0],
    [text |-> <<"0", "0", "7">>, value |-> 7],
    [text |-> <<"1", "2", "8">>, value |-> 128],
    [text |-> <<"2", "5", "5">>, value |-> 255],
    [text |-> <<"2", "5", "6">>, value |-> 256],
    [text |-> <<"9", "9", "9">>, value |-> 999]}

numeral(v) == (CHOOSE n \in Numerals : n.value = v).text
is_numeral(t) == \E n \in Numerals : n.text = t
value_of(t) == (CHOOSE n \in Numerals : n.text = t).value

\* the characters tried in the slot position of a set line
SlotTokens == {<<c>> : c \in {"w", "e", "r", "s", "d", "f", "W", "!"}}
PathTokens == {T_path, T_file, T_q, T_a, T_w, T_set}

TokenLines ==
    {<<>>}
    \cup {<<k>> : k \in {T_q, T_w, T_set, T_x}}
    \cup {<<k, t>> : k \in {T_q, T_w}, t \in PathTokens}
    \cup {<<T_w, t, u>> : t \in {T_a, T_b}, u \in {T_a, T_b}}
    \cup {<<T_set, c, numeral(r), numeral(g), numeral(b)>> :
            c \in SlotTokens, r \in {0, 7, 128, 255, 256, 999},
            g \in {255, 256}, b \in {128, 999}}
    \cup {<<T_set, T_w, numeral(255), numeral(255), numeral(128), T_semi>>,
          <<T_set, T_w, numeral(255), numeral(255), T_128semi>>,
          <<T_set, T_w, numeral(255), numeral(255)>>}

\* the shortest runs of spaces that keep the tokens apart: none after the
\* prefix and at the end, one between two tokens
tight(tokens) ==
    [i \in 1..(Len(tokens) + 1) |-> IF 1 < i /\ i <= Len(tokens) THEN 1 ELSE 0]

RECURSIVE spaces(_)
spaces(n) == IF n = 0 THEN <<>> ELSE <<" ">> \o spaces(n - 1)

RECURSIVE sum(_, _)
sum(f, i) == IF i > Len(f) THEN 0 ELSE f[i] + sum(f, i + 1)

\* the characters of the line: prefix, run, token, run, ..., token, run
RECURSIVE text_from(_, _)
text_from(inp, i) ==
    IF i > Len(inp.tokens) THEN <<>>
    ELSE inp.tokens[i] \o spaces(inp.gaps[i + 1]) \o text_from(inp, i + 1)

text(inp) == inp.prefix \o spaces(inp.gaps[1]) \o text_from(inp, 1)

\* ":  set  w 255   255  128  " of test_parse_cmd
SpacedSetLine ==
    [prefix |-> <<":">>,
     tokens |-> <<T_set, T_w, numeral(255), numeral(255), numeral(128)>>,
     gaps |-> <<2, 2, 1, 3, 2, 2>>]

Inputs ==
    {[prefix |-> <<":">>, tokens |-> t, gaps |-> tight(t)] : t \in TokenLines}
    \cup {[prefix |-> <<>>, tokens |-> t, gaps |-> tight(t)] : t \in {<<>>, <<T_q>>, <<T_w>>}}
    \cup {SpacedSetLine}

\* RE.captures(..) of try_parse_set_palette: the first group of the match,
\* or no match
set_palette_captures(s) ==
    LET a == skip(s, 2, SpaceChar)
        b == skip(s, a + 3, SpaceChar)
        c == skip(s, b + 1, SpaceChar)
        d == skip(s, c, DigitSet)
        e == skip(s, d, SpaceChar)
        f == skip(s, e, DigitSet)
        g == skip(s, f, SpaceChar)
        h == skip(s, g, DigitSet)
    IN  IF /\ at(s, 1, ":")
           /\ at(s, a, "s") /\ at(s, a + 1, "e") /\ at(s, a + 2, "t")
           /\ b > a + 3
           /\ b <= Len(s) /\ s[b] \in WordChars
           /\ c > b + 1
           /\ d > c /\ e > d
           /\ f > e /\ g > f
           /\ h > g
           /\ skip(s, h, SpaceChar) = Len(s) + 1
        THEN [some |-> TRUE, group1 |-> SubSeq(s, b, b)]
        ELSE [some |-> FALSE, group1 |-> <<>>]

\* cap[1].chars().next().unwrap(): a panic if the first group is empty
unwrap_panics(s) ==
    LET cap == set_palette_captures(s)
    IN  cap.some /\ cap.group1 = <<>>

\* new_key_input(line) for a line of Inputs
InitLine ==
    /\ InitCanvasOf(1, 1)
    /\ InitKeyInput
    /\ InitOther
    /\ hist = <<>>
    /\ input \in Inputs
    /\ parsed = NotParsed

\* ki.parse_cmd_line()
parse ==
    /\ parsed = NotParsed
    /\ parsed' = IF unwrap_panics(text(input)) THEN ParsePanic
                 ELSE Parsed(parse_cmd_line(key_config, text(input)))
    /\ UNCHANGED input

\* the same line with one more space in run i, parsed again
widen(i) ==
    /\ parsed.status = "Ok"
    /\ sum(input.gaps, 1) - sum(tight(input.tokens), 1) < MaxExtra
    /\ input' = [input EXCEPT !.gaps[i] = @ + 1]
    /\ parsed' = IF unwrap_panics(text(input')) THEN ParsePanic
                 ELSE Parsed(parse_cmd_line(key_config, text(input')))

WidenStep == \E i \in 1..Len(input.gaps) : widen(i)

NextGrammar ==
    /\ \/ parse
       \/ WidenStep
    /\ UNCHANGED <<canvas_vars, hist, keyinput_vars, other_vars>>

SpecGrammar == InitLine /\ [][NextGrammar]_vars

\* ------------------------------------------------------------------ the end-to-end scenario
\* color that indexes one slot too far
color_next(colors, id) == colors[((id + 1) % NUM_COLORS) + 1]

\* Palette::color: self.colors[id as usize]
color(colors, id) == colors[id + 1]

\* the variants of PaletteID by name
PaletteIDName(id) == <<"ID0", "ID1", "ID2", "ID3", "ID4", "ID5">>[id + 1]

\* tests/image/00.png, the 5 by 2 image of the tests, row by row
Image00Rows ==
    <<<<Rgb(237, 28, 36), Rgb(63, 72, 204), Rgb(255, 255, 255),
        Rgb(255, 255, 255), Rgb(255, 127, 39)>>,
      <<Rgb(255, 255, 255), Rgb(255, 255, 255), Rgb(255, 255, 255),
        Rgb(255, 255, 255), Rgb(255, 242, 0)>>>>

RECURSIVE flatten(_)
flatten(seqs) == IF seqs = <<>> THEN <<>> ELSE Head(seqs) \o flatten(Tail(seqs))

Image00 ==
    PngFile(Len(Image00Rows[1]), Len(Image00Rows),
            flatten(flatten(Image00Rows)))

InitScenario ==
    /\ InitCanvasOn(Image00)
    /\ InitKeyInput
    /\ InitOther
    /\ InitGrammar
    /\ hist = <<>>

\* the dispatcher on Command::Direction(dir), before any paint
apply_direction(dir) ==
    /\ npaint = 0
    /\ Len(hist) < MaxMoves
    /\ move_cursor(dir)
    /\ hist' = Append(hist, dir)

\* the dispatcher on Command::Palette(id): paint the cursor's pixel with the
\* colour of the slot
apply_palette(id) ==
    /\ paint(color(Palette_default, id))
    /\ hist' = Append(hist, PaletteIDName(id))

\* the dispatcher on Command::Save, after the paint
apply_save(outcome) ==
    /\ last_op.name = "paint"
    /\ save(outcome)
    /\ hist' = Append(hist, "Save")

ScenarioMove == \E dir \in Directions : apply_direction(dir)
ScenarioPaint == \E id \in PaletteIDs : apply_palette(id)
ScenarioSave == \E outcome \in SaveOutcomes : apply_save(outcome)

NextScenario ==
    /\ \/ ScenarioMove
       \/ ScenarioPaint
       \/ ScenarioSave
    /\ UNCHANGED <<keyinput_vars, grammar_vars, other_vars>>

SpecScenario == InitScenario /\ [][NextScenario]_vars

\* ------------------------------------------------------------------ the Palette on its own
\* the colours assigned to palette slots
SetColors == {Rgb(0, 0, 0), Rgb(3, 4, 5), Rgb(127, 127, 127), Rgb(255, 0, 0)}

\* an assignment through color_mut that lands on the slot after id
color_mut_next(colors, id, rgb) ==
    [colors EXCEPT ![((id + 1) % NUM_COLORS) + 1] = rgb]

\* *palette.color_mut(id) = rgb
color_mut(colors, id, rgb) == [colors EXCEPT ![id + 1] = rgb]

InitColors ==
    /\ InitCanvasOf(1, 1)
    /\ InitKeyInput
    /\ InitOther
    /\ InitGrammar
    /\ hist = <<>>

set_color(id, rgb) ==
    /\ Len(palette_log) < MaxSets
    /\ palette' = color_mut(palette, id, rgb)
    /\ palette_log' = Append(palette_log, [id |-> id, rgb |-> rgb, before |-> palette])
    /\ UNCHANGED <<canvas_vars, hist, keyinput_vars, grammar_vars,
                   open_vars, app_vars, rgb_vars>>

NextPalette == \E id \in 0..(NUM_COLORS - 1), rgb \in SetColors : set_color(id, rgb)

SpecPalette == InitColors /\ [][NextPalette]_vars

\* ------------------------------------------------------------------ Rgb on its own
\* colours whose three channels each take every 8-bit value, and the corners
Colors8 ==
    {Rgb(v, 255 - v, (7 * v + 3) % 256) : v \in 0..255}
        \cup {Rgb(r, g, b) : r \in {0, 255}, g \in {0, 255}, b \in {0, 255}}

InitColor ==
    /\ InitCanvasOf(1, 1)
    /\ InitKeyInput
    /\ InitOpen
    /\ InitPalette
    /\ InitNoApp
    /\ InitGrammar
    /\ hist = <<>>
    /\ \E c \in Colors8 : inverted = [of |-> c, n |-> 0, val |-> c]

\* val.opposite()
invert ==
    /\ inverted.n < MaxInverts
    /\ inverted' = [inverted EXCEPT !.val = opposite(inverted.val), !.n = inverted.n + 1]
    /\ UNCHANGED <<canvas_vars, hist, keyinput_vars, grammar_vars,
                   open_vars, palette_vars, app_vars>>

SpecRgb == InitColor /\ [][invert]_vars

\* ------------------------------------------------------------------ Image::open on its own
\* colour type and bit depth of a PNG, as png::OutputInfo reports them
Format(ct, bd) == [color_type |-> ct, bit_depth |-> bd]

Formats ==
    {Format("Grayscale", bd) : bd \in {1, 2, 4, 8, 16}}
    \cup {Format("Rgb", bd) : bd \in {8, 16}}
    \cup {Format("Indexed", bd) : bd \in {1, 2, 4, 8}}
    \cup {Format("GrayscaleAlpha", bd) : bd \in {8, 16}}
    \cup {Format("Rgba", bd) : bd \in {8, 16}}

samples(ct) ==
    CASE ct = "Rgb" -> 3
      [] ct = "Rgba" -> 4
      [] ct = "GrayscaleAlpha" -> 2
      [] OTHER -> 1

\* info.buffer_size(): rows of whole bytes
buffer_size(w, h, fmt) == h * ((w * samples(fmt.color_type) * fmt.bit_depth + 7) \div 8)

\* what next_frame puts into buf
DecodedBytes(w, h, fmt) ==
    IF fmt = Format("Rgb", 8) THEN FileBytes(w, h, 0)
    ELSE [i \in 1..buffer_size(w, h, fmt) |-> 0]

\* the files Image::open is tried on: no file, a file that is no PNG, PNGs of
\* every format whose frame data is sound or corrupt and whose sync_all
\* succeeds or fails
Files ==
    {NoFile, [NoFile EXCEPT !.exists = TRUE]}
    \cup {[exists |-> TRUE, header_ok |-> TRUE, frame_ok |-> fo, sync_ok |-> so,
           color_type |-> fmt.color_type, bit_depth |-> fmt.bit_depth,
           width |-> w, height |-> h,
           bytes |-> IF fo THEN DecodedBytes(w, h, fmt) ELSE <<>>] :
            fo \in BOOLEAN, so \in BOOLEAN, fmt \in Formats,
            w \in 1..MaxW, h \in 1..MaxH}

NoImage == [path |-> "", width |-> 0, height |-> 0, data |-> <<>>]

\* no Canvas yet: only the file to open exists
InitFile(file) ==
    /\ fs = [p \in Paths |-> IF p = OpenedPath THEN file ELSE NoFile]
    /\ image = NoImage
    /\ cursor_coord = <<0, 0>>
    /\ frame = NoFrame
    /\ last_op = Op("none", "")
    /\ result = Ok
    /\ panicked = FALSE
    /\ npaint = 0

InitFiles ==
    /\ \E file \in Files : InitFile(file)
    /\ InitKeyInput
    /\ InitOther
    /\ InitGrammar
    /\ hist = <<>>

\* Image::open(OpenedPath)
open_file ==
    /\ opened = NotOpened
    /\ opened' = open(fs, OpenedPath)
    /\ UNCHANGED <<canvas_vars, hist, keyinput_vars, grammar_vars,
                   palette_vars, app_vars, rgb_vars>>

SpecOpen == InitFiles /\ [][open_file]_vars

\* ------------------------------------------------------------------ ProgrammedEvent and App
RECURSIVE reverse(_)
reverse(seq) == IF seq = <<>> THEN <<>> ELSE Append(reverse(Tail(seq)), Head(seq))

\* ProgrammedEvent::new that keeps the order of cmds
ProgrammedEvent_new_unreversed(cmds) == cmds

\* ProgrammedEvent::new: cmds.reverse()
ProgrammedEvent_new(cmds) == reverse(cmds)

\* remain_commands.pop(): the command returned and the commands left
ProgrammedEvent_read(remain) ==
    IF remain = <<>>
    THEN [cmd |-> Nop, remain |-> <<>>]
    ELSE [cmd |-> remain[Len(remain)], remain |-> SubSeq(remain, 1, Len(remain) - 1)]

\* the commands App::main_loop matches on (Unknown is Nop in command.rs)
AppCmds == {Nop, Quit, Direction("Right"), Direction("Down")}

Programs == UNION {[1..n -> AppCmds] : n \in 0..MaxCmds}

\* main_loop that leaves the loop on Nop as well
breaks_on_nop(c) == c \in {Quit, Nop}

\* Command::Quit => break
breaks(c) == c = Quit

AppStart == [pc |-> "draw", cmd |-> Nop, result |-> "None", ndraw |-> 0, nread |-> 0, napply |-> 0]

\* App::new(img, ProgrammedEvent::new(cmds)) about to run, or the stream on
\* its own as in test_read_order
InitApp ==
    /\ InitCanvasOf(2, 2)
    /\ InitKeyInput
    /\ InitOpen
    /\ InitPalette
    /\ InitRgb
    /\ InitGrammar
    /\ hist = <<>>
    /\ \E cmds \in Programs :
        /\ programmed = cmds
        /\ cmd_stream = ProgrammedEvent_new(cmds)
    /\ app \in {AppStart, NoApp}

\* terminal.draw(|f| self.ui(f)).map_err(AppError::Draw)?
app_draw(ok) ==
    /\ app.pc = "draw"
    /\ IF ok
       THEN /\ render
            /\ app' = [app EXCEPT !.pc = "read", !.ndraw = @ + 1]
       ELSE /\ app' = [app EXCEPT !.pc = "done", !.result = "Draw"]
            /\ UNCHANGED canvas_vars
    /\ UNCHANGED <<programmed, cmd_stream>>

\* self.cmd_stream.read().map_err(AppError::ReadCommand)?  ProgrammedEvent's
\* read has no error (DummyError has no value)
app_read ==
    /\ app.pc = "read"
    /\ app.nread < MaxReads
    /\ LET r == ProgrammedEvent_read(cmd_stream)
       IN  /\ cmd_stream' = r.remain
           /\ app' = [app EXCEPT !.pc = "apply", !.cmd = r.cmd, !.nread = @ + 1]
    /\ UNCHANGED <<canvas_vars, programmed>>

\* the match of main_loop
app_apply ==
    /\ app.pc = "apply"
    /\ IF breaks(app.cmd)
       THEN /\ app' = [app EXCEPT !.pc = "done", !.result = "Ok"]
            /\ UNCHANGED canvas_vars
       ELSE /\ app' = [app EXCEPT !.pc = "draw", !.napply = @ + 1]
            /\ IF app.cmd.op = "Direction"
               THEN move_cursor(app.cmd.dir)
               ELSE UNCHANGED canvas_vars
    /\ UNCHANGED <<programmed, cmd_stream>>

\* cs.read() on a ProgrammedEvent of its own
stream_read ==
    /\ app.pc = "none"
    /\ app.nread < MaxReads
    /\ LET r == ProgrammedEvent_read(cmd_stream)
       IN  /\ cmd_stream' = r.remain
           /\ app' = [app EXCEPT !.cmd = r.cmd, !.nread = @ + 1]
    /\ UNCHANGED <<canvas_vars, programmed>>

DrawStep == \E ok \in BOOLEAN : app_draw(ok)

NextApp ==
    /\ \/ DrawStep
       \/ app_read
       \/ app_apply
       \/ stream_read
    /\ UNCHANGED <<hist, keyinput_vars, grammar_vars, open_vars, palette_vars, rgb_vars>>

SpecApp == InitApp /\ [][NextApp]_vars

\* ------------------------------------------------------------------ properties
\* the mode KeyInput::read branches on: the line is empty or it is not
Mode(content) == IF Len(content) = 0 THEN "Normal" ELSE "CommandLine"

all_in(s, set) == \A i \in 1..Len(s) : s[i] \in set

\* C1: a Canvas starts with its cursor at (0,0), and after any sequence of
\* move_cursor, paint, save, save_as and render the cursor satisfies
\* 0 <= x < width and 0 <= y < height.
C1_CursorInBounds ==
    /\ last_op.name = "new" => cursor_coord = <<0, 0>>
    /\ 0 <= cursor_coord[1] /\ cursor_coord[1] < image.width
    /\ 0 <= cursor_coord[2] /\ cursor_coord[2] < image.height

C1_Witness ==
    /\ last_op.name = "paint"
    /\ image.width > 1 /\ image.height > 1
    /\ cursor_coord = <<image.width - 1, image.height - 1>>

\* C2: from (0,0), any number of Left or Up moves leaves the cursor at (0,0);
\* more than width Right moves leave it at (width-1, 0) and more than height
\* Down moves at (0, height-1); no move fails or panics.
C2_ClampedMovement ==
    /\ ~panicked /\ result.ok
    /\ all_in(hist, {"Left", "Up"}) => cursor_coord = <<0, 0>>
    /\ (all_in(hist, {"Right"}) /\ Len(hist) > image.width)
            => cursor_coord = <<image.width - 1, 0>>
    /\ (all_in(hist, {"Down"}) /\ Len(hist) > image.height)
            => cursor_coord = <<0, image.height - 1>>

C2_Witness ==
    /\ image.width > 1
    /\ all_in(hist, {"Right"}) /\ Len(hist) > image.width
    /\ cursor_coord = <<image.width - 1, 0>>

\* C3 as stated: the mode changes from Normal to CommandLine only on the prefix
\* key and from CommandLine to Normal only on Enter; nothing else changes it.
C3_Original ==
    [][Mode(cmd_line_content') # Mode(cmd_line_content) =>
        \/ Mode(cmd_line_content) = "Normal" /\ event' = Char(":")
        \/ Mode(cmd_line_content) = "CommandLine" /\ event' = Enter]_vars

\* C3 amended: the mode changes from Normal to CommandLine only on the prefix
\* key, and from CommandLine to Normal only on Enter or on a Backspace that
\* removes the last remaining character (the prefix); nothing else changes it.
C3_ModeChanges ==
    [][Mode(cmd_line_content') # Mode(cmd_line_content) =>
        \/ Mode(cmd_line_content) = "Normal" /\ event' = Char(":")
        \/ Mode(cmd_line_content) = "CommandLine" /\ event' = Enter
        \/ Len(cmd_line_content) = 1 /\ event' = Backspace]_vars

C3_Witness ==
    /\ event = Enter
    /\ cmd = Read(Save)
    /\ Mode(cmd_line_content) = "Normal"

\* C4: Enter in CommandLine mode emits the instruction the grammar gives for
\* the line (Nop if nothing matches), clears the line and ends in Normal mode.
C4_EnterEmitsParsed ==
    [][(Len(cmd_line_content) > 0 /\ event' = Enter) =>
        /\ cmd' = Read(parse_cmd_line(KeyConfig_default, cmd_line_content))
        /\ cmd_line_content = <<":", "q">> => cmd'.cmd = Quit
        /\ cmd_line_content = <<":">> => cmd'.cmd = Nop
        /\ cmd_line_content' = <<>>
        /\ Mode(cmd_line_content') = "Normal"]_vars

C4_Witness ==
    /\ event = Enter
    /\ cmd = Read(SetPalette(0, Rgb(255, 255, 128)))
    /\ cmd_line_content = <<>>

\* C5: in Normal mode the prefix key enters CommandLine mode with the line
\* holding exactly the prefix and emits Nop, whatever the key table binds.
C5_PrefixEntersCommandLine ==
    [][(Len(cmd_line_content) = 0 /\ event' = Char(cmd_line_prefix(KeyConfig_default))) =>
        /\ cmd_line_content' = <<cmd_line_prefix(KeyConfig_default)>>
        /\ cmd' = Read(Nop)]_vars

C5_Witness ==
    /\ event = Char(":")
    /\ cmd_line_content = <<":">>
    /\ cmd = Read(Nop)

\* C6: in Normal mode a key other than the prefix emits the instruction bound
\* to it, or Nop if none is, and the line stays empty
\* ('h' -> Direction(Left), 'r' -> Palette(2), '!' -> Nop).
C6_NormalKeyLookup ==
    [][(Len(cmd_line_content) = 0 /\ event'.type = "Key" /\ event' # Char(":")) =>
        /\ cmd_line_content' = <<>>
        /\ cmd'.status = "Ok"
        /\ (event'.code = "Char" /\ event'.ch \in DOMAIN key_config.config)
                => cmd'.cmd = key_config.config[event'.ch]
        /\ ~(event'.code = "Char" /\ event'.ch \in DOMAIN key_config.config)
                => cmd'.cmd = Nop
        /\ event' = Char("h") => cmd'.cmd = Direction("Left")
        /\ event' = Char("r") => cmd'.cmd = Palette(2)
        /\ event' = Char("!") => cmd'.cmd = Nop]_vars

C6_Witness ==
    /\ event = Char("r")
    /\ cmd = Read(Palette(2))
    /\ cmd_line_content = <<>>

\* C7: in CommandLine mode a character key appends the character and emits
\* Nop, a key other than Enter, a character or Backspace changes nothing and
\* emits Nop, and no key but Enter emits anything other than Nop.
C7_CommandLineKeys ==
    [][(Len(cmd_line_content) > 0 /\ event'.type = "Key") =>
        /\ event'.code = "Char" =>
                /\ cmd_line_content' = Append(cmd_line_content, event'.ch)
                /\ cmd' = Read(Nop)
        /\ event'.code \notin {"Enter", "Char", "Backspace"} =>
                /\ cmd_line_content' = cmd_line_content
                /\ cmd' = Read(Nop)
        /\ event'.code # "Enter" => cmd'.cmd = Nop]_vars

C7_Witness ==
    /\ event = Char("q")
    /\ Len(cmd_line_content) >= 2
    /\ cmd_line_content[Len(cmd_line_content)] = "q"
    /\ cmd = Read(Nop)

\* C8 as stated: Backspace in CommandLine mode removes the last character,
\* emits Nop and the machine stays in CommandLine mode, also when the line
\* holds only the prefix.
C8_Original ==
    [][(Len(cmd_line_content) > 0 /\ event' = Backspace) =>
        /\ cmd_line_content' = SubSeq(cmd_line_content, 1, Len(cmd_line_content) - 1)
        /\ cmd' = Read(Nop)
        /\ Mode(cmd_line_content') = "CommandLine"]_vars

\* C8 amended: Backspace in CommandLine mode removes the last character and
\* emits Nop; the machine stays in CommandLine mode when the line held more
\* than the prefix, and is back in Normal mode, the line empty, when it held
\* only the prefix.
C8_Backspace ==
    [][(Len(cmd_line_content) > 0 /\ event' = Backspace) =>
        /\ cmd_line_content' = SubSeq(cmd_line_content, 1, Len(cmd_line_content) - 1)
        /\ cmd' = Read(Nop)
        /\ Len(cmd_line_content) > 1 => Mode(cmd_line_content') = "CommandLine"
        /\ Len(cmd_line_content) = 1 => Mode(cmd_line_content') = "Normal"]_vars

C8_Witness ==
    /\ event = Backspace
    /\ Len(cmd_line_content) = 2
    /\ cmd = Read(Nop)

\* C9: in CommandLine mode the first character of the line is the prefix
\* character ':', and in Normal mode the line is empty.
C9_LineStartsWithPrefix ==
    /\ Mode(cmd_line_content) = "CommandLine" =>
            cmd_line_content[1] = cmd_line_prefix(KeyConfig_default)
    /\ Mode(cmd_line_content) = "Normal" => cmd_line_content = <<>>

C9_Witness ==
    /\ event = Char(":")
    /\ Len(cmd_line_content) = 3
    /\ cmd_line_content[1] = ":"

\* C10: an event that is no key emits Nop and leaves the line, and so the
\* mode, as they were, in Normal and in CommandLine mode alike.
C10_NonKeyIgnored ==
    [][event'.type \in {"Resize", "Mouse"} =>
        /\ cmd' = Read(Nop)
        /\ cmd_line_content' = cmd_line_content]_vars

C10_Witness ==
    /\ event = Resize
    /\ Len(cmd_line_content) > 1
    /\ cmd = Read(Nop)

\* the extra spaces of a line over its tightest spelling
extra(inp) == sum(inp.gaps, 1) - sum(tight(inp.tokens), 1)

\* C11: after the prefix, "q" parses to Quit, "w" to Save, "w <token>" to
\* SaveAs with exactly the token as path, and "w" followed by two tokens to
\* none of the three.
C11_QuitSaveSaveAs ==
    (input.prefix = <<":">> /\ parsed.status # "None") =>
        /\ parsed.status = "Ok"
        /\ input.tokens = <<T_q>> => parsed.cmd = Quit
        /\ input.tokens = <<T_w>> => parsed.cmd = Save
        /\ (Len(input.tokens) = 2 /\ input.tokens[1] = T_w)
                => parsed.cmd = SaveAs(input.tokens[2])
        /\ (Len(input.tokens) = 3 /\ input.tokens[1] = T_w)
                => parsed.cmd.op \notin {"Quit", "Save", "SaveAs"}

C11_Witness ==
    /\ input.prefix = <<":">>
    /\ input.tokens = <<T_w, T_file>>
    /\ extra(input) > 0
    /\ parsed = Parsed(SaveAs(T_file))

\* the tokens are "set", one character and three numerals
is_set_line(inp) ==
    /\ inp.prefix = <<":">>
    /\ Len(inp.tokens) = 5
    /\ inp.tokens[1] = T_set
    /\ Len(inp.tokens[2]) = 1
    /\ \A i \in 3..5 : is_numeral(inp.tokens[i])

\* C12: ":set <c> <r> <g> <b>" with <c> the character of palette slot s and
\* r, g, b numerals of integers in 0..255 parses to SetPalette(s, Rgb(r, g, b)),
\* whatever the runs of spaces; the two lines of the tests give slot 0 and
\* Rgb(255, 255, 128).
C12_SetPalette ==
    (is_set_line(input) /\ parsed.status # "None") =>
        /\ \A s \in PaletteIDs :
            (/\ input.tokens[2] = <<KeyConfig_default.palette_id2char[s + 1]>>
             /\ \A i \in 3..5 : value_of(input.tokens[i]) <= 255)
            => parsed = Parsed(SetPalette(s, Rgb(value_of(input.tokens[3]),
                                                 value_of(input.tokens[4]),
                                                 value_of(input.tokens[5]))))
        /\ input.tokens = SpacedSetLine.tokens
            => parsed = Parsed(SetPalette(0, Rgb(255, 255, 128)))

C12_Witness ==
    /\ input = SpacedSetLine
    /\ parsed = Parsed(SetPalette(0, Rgb(255, 255, 128)))

\* C13: a set line parses to Nop when its slot character is none of the six
\* slot characters, when one of its integers is above 255, or when text
\* follows the third integer; SetPalette comes only from three integers in
\* 0..255 and carries exactly these.
C13_SetPaletteRejects ==
    (/\ input.prefix = <<":">>
     /\ Len(input.tokens) >= 1
     /\ input.tokens[1] = T_set
     /\ parsed.status # "None") =>
        /\ (/\ is_set_line(input)
            /\ \/ input.tokens[2] \notin {<<"w">>, <<"e">>, <<"r">>, <<"s">>, <<"d">>, <<"f">>}
               \/ \E i \in 3..5 : value_of(input.tokens[i]) > 255)
           => parsed = Parsed(Nop)
        /\ ~is_set_line(input) => parsed = Parsed(Nop)
        /\ parsed.cmd.op = "SetPalette" =>
            /\ is_set_line(input)
            /\ \A i \in 3..5 : value_of(input.tokens[i]) <= 255
            /\ parsed.cmd.rgb = Rgb(value_of(input.tokens[3]),
                                    value_of(input.tokens[4]),
                                    value_of(input.tokens[5]))

C13_Witness ==
    /\ input.tokens = <<T_set, T_w, numeral(256), numeral(255), numeral(128)>>
    /\ parsed = Parsed(Nop)

\* some pattern of the grammar matches the line
some_pattern_matches(s) ==
    \/ try_parse_quit(KeyConfig_default, s).some
    \/ try_parse_save(KeyConfig_default, s).some
    \/ try_parse_save_as(KeyConfig_default, s).some
    \/ try_parse_set_palette(KeyConfig_default, s).some

\* C14: parse_cmd_line returns a command for every line, the empty line and
\* the lone prefix included, never panics, and returns Nop whenever none of
\* the four patterns matches.
C14_ParseTotalAndSilent ==
    parsed.status # "None" =>
        /\ parsed.status = "Ok"
        /\ parsed.cmd.op \in {"Quit", "Nop", "Save", "SaveAs", "SetPalette"}
        /\ ~some_pattern_matches(text(input)) => parsed.cmd = Nop
        /\ text(input) \in {<<>>, <<":">>} => parsed.cmd = Nop

C14_Witness ==
    /\ text(input) = <<>>
    /\ parsed = Parsed(Nop)

cells(img) == {<<x, y>> : x \in 0..(width(img) - 1), y \in 0..(height(img) - 1)}

cell(data, coord) == data[coord[2] + 1][coord[1] + 1]

\* C16: what a render with the cursor in bounds draws has, at every cell but
\* the cursor's, foreground and background equal to the stored colour and, at
\* the cursor's cell, the opposite of the stored colour as foreground over the
\* stored colour as background; the render leaves the stored image as it was.
C16_CursorOverlay ==
    [][(last_op'.name = "render" /\ assert_coord(image, cursor_coord)) =>
        /\ image' = image
        /\ frame' # NoFrame
        /\ \A c \in cells(image) :
            LET stored == bg_color(image, c)
            IN  cell(frame', c) =
                    IF c = cursor_coord
                    THEN [fg |-> opposite(stored), bg |-> stored]
                    ELSE [fg |-> stored, bg |-> stored]]_vars

C16_Witness ==
    /\ last_op.name = "render"
    /\ width(image) = 2 /\ height(image) = 2
    /\ cursor_coord = <<1, 0>>
    /\ npaint = 1
    /\ cell(frame, <<1, 0>>).fg = opposite(cell(frame, <<1, 0>>).bg)
    /\ cell(frame, <<0, 1>>) = Span(FilePixel(0, 1))

\* C17: a paint gives the cell at the cursor the colour as foreground and as
\* background and leaves every other cell, the width, the height, the path
\* and the cursor as they were.
C17_PaintFrame ==
    [][last_op'.name = "paint" =>
        /\ \E painted \in PaintColors :
            \A c \in cells(image) :
                cell(image'.data, c) =
                    IF c = cursor_coord THEN Span(painted) ELSE cell(image.data, c)
        /\ width(image') = width(image)
        /\ height(image') = height(image)
        /\ image'.path = image.path
        /\ cursor_coord' = cursor_coord]_vars

C17_Witness ==
    /\ last_op.name = "paint"
    /\ width(image) = 2 /\ height(image) = 2
    /\ cursor_coord = <<1, 1>>
    /\ cell(image.data, <<1, 1>>) = Span(Rgb(0, 0, 0))
    /\ cell(image.data, <<0, 1>>) = Span(FilePixel(0, 1))

\* C18: no sequence of moves, paints, renders and saves makes a paint or a
\* render fail the bounds assertion: nothing has panicked, the coordinate a
\* paint or render would pass satisfies assert_coord, and the last paint or
\* render returned normally.
C18_AccessInBounds ==
    /\ ~panicked
    /\ result.err # "panic"
    /\ assert_coord(image, cursor_coord)
    /\ last_op.name = "render" => frame # NoFrame

C18_Witness ==
    /\ last_op.name = "render"
    /\ npaint = 1
    /\ cursor_coord = <<width(image) - 1, height(image) - 1>>
    /\ width(image) = 2 /\ height(image) = 2
    /\ fs["q"].exists
    /\ frame # NoFrame

\* C20: when a save or save_as has written the file, opening the file gives
\* the width, the height and the grid the stored image had at the save, and
\* without a paint before the save this is the grid of the file the image was
\* opened from.
C20_RoundTrip ==
    [][(/\ last_op'.name \in {"save", "save_as"}
        /\ result'.ok
        /\ fs'[image'.path].frame_ok) =>
        /\ open(fs', image'.path) = Opened([image EXCEPT !.path = image'.path])
        /\ last_op'.name = "save_as" => image'.path = last_op'.arg
        /\ last_op'.name = "save" => image'.path = image.path
        /\ npaint = 0 =>
            image.data = Image_data(FileBytes(width(image), height(image), 0),
                                    width(image), height(image))]_vars

C20_Witness ==
    /\ last_op = Op("save_as", "q")
    /\ result.ok
    /\ npaint = 1
    /\ width(image) = 2 /\ height(image) = 2
    /\ open(fs, "q").ok
    /\ open(fs, "q").val.data = image.data
    /\ open(fs, "q").val.data # open(fs, "p").val.data

\* the commands of the scenario up to the paint
ScenarioMoves == <<"Right", "Right", "Right", "Right", "Down">>

\* C19: on the 5 by 2 image, four moves right and one down from (0, 0) put the
\* cursor at (4, 1); painting with slot 0 then makes pixel (4, 1) the colour of
\* slot 0; and the file a Save has then written opens to a grid that differs
\* from the grid first loaded at (4, 1) and nowhere else.
C19_EndToEnd ==
    LET original == open([p \in Paths |-> Image00], OpenedPath).val
        reopened == open(fs, OpenedPath)
    IN  /\ hist = ScenarioMoves => cursor_coord = <<4, 1>>
        /\ hist = ScenarioMoves \o <<"ID0">> =>
            /\ cursor_coord = <<4, 1>>
            /\ cell(image.data, <<4, 1>>) = Span(Rgb(0, 0, 0))
        /\ (/\ hist = ScenarioMoves \o <<"ID0", "Save">>
            /\ result.ok
            /\ fs[OpenedPath].frame_ok) =>
            /\ reopened.ok
            /\ width(reopened.val) = 5 /\ height(reopened.val) = 2
            /\ \A c \in cells(original) :
                (cell(reopened.val.data, c) # cell(original.data, c)) <=> (c = <<4, 1>>)
            /\ cell(reopened.val.data, <<4, 1>>) = Span(Rgb(0, 0, 0))

C19_Witness ==
    /\ hist = ScenarioMoves \o <<"ID0", "Save">>
    /\ result.ok
    /\ open(fs, OpenedPath).ok
    /\ cell(open(fs, OpenedPath).val.data, <<4, 1>>) = Span(Rgb(0, 0, 0))
    /\ cell(open(fs, OpenedPath).val.data, <<4, 0>>) = Span(Rgb(255, 127, 39))

\* C21: a save_as that returns Ok leaves its path as the remembered path; no
\* other operation changes the remembered path; and a plain save writes to
\* the remembered path and to no other file.
C21_RememberedPath ==
    [][/\ (last_op'.name = "save_as" /\ result'.ok) => image'.path = last_op'.arg
       /\ last_op'.name # "save_as" => image'.path = image.path
       /\ last_op'.name = "save" =>
            /\ \A p \in Paths \ {image.path} : fs'[p] = fs[p]
            /\ result'.ok =>
                fs'[image.path] \in
                    {PngFile(width(image), height(image), rgb_vec(image)), TruncatedFile}]_vars

C21_Witness ==
    /\ last_op = Op("save", "")
    /\ result.ok
    /\ image.path = "q"
    /\ npaint = 1
    /\ open(fs, "q") = Opened(image)
    /\ open(fs, "p").ok
    /\ open(fs, "p").val.data # image.data

\* C26: Canvas::save and Canvas::save_as return Ok when the image's save
\* returns Ok and otherwise the image's error inside Error::Image; a save_as
\* that fails leaves the remembered path, the pixels and the cursor as they
\* were.
C26_SaveErrors ==
    [][last_op'.name \in {"save", "save_as"} =>
        /\ \E outcome \in SaveOutcomes :
            LET inner == Image_save(outcome)
                path == IF last_op'.name = "save" THEN image.path ELSE last_op'.arg
            IN  /\ fs' = written(fs, image, path, outcome)
                /\ result' = IF inner.ok THEN Ok ELSE Err("Image", inner.err)
        /\ (last_op'.name = "save_as" /\ ~result'.ok) =>
            /\ image' = image
            /\ cursor_coord' = cursor_coord]_vars

C26_Witness ==
    /\ last_op = Op("save_as", "q")
    /\ result = Err("Image", "Encode")
    /\ image.path = "p"
    /\ fs["q"] = TruncatedFile
    /\ npaint = 1
    /\ cursor_coord = <<1, 1>>

\* C22: Image::open never aborts; it returns the IO error when the file
\* cannot be opened, the Decode error when the PNG stream is corrupt in its
\* header or in its frame data, UnsupportedImgType when the decoded colour
\* type is not RGB or the bit depth is not 8, and an image only for a sound
\* 8-bit RGB PNG.
C22_OpenErrors ==
    LET f == fs[OpenedPath]
    IN  opened # NotOpened =>
            /\ opened.err # "panic"
            /\ ~f.exists => opened.err = "IO"
            /\ (f.exists /\ (~f.header_ok \/ ~f.frame_ok)) => opened.err = "Decode"
            /\ (/\ f.exists /\ f.header_ok /\ f.frame_ok
                /\ Format(f.color_type, f.bit_depth) # Format("Rgb", 8))
               => opened.err = "UnsupportedImgType"
            /\ opened.ok =>
                /\ f.exists /\ f.header_ok /\ f.frame_ok
                /\ Format(f.color_type, f.bit_depth) = Format("Rgb", 8)

has_quit(cmds) == \E i \in 1..Len(cmds) : cmds[i] = Quit

\* the steps of main_loop come in the order draw, read, apply
in_order(a) ==
    CASE a.pc = "draw" -> a.ndraw = a.nread /\ a.napply = a.nread
      [] a.pc = "read" -> a.ndraw = a.nread + 1 /\ a.napply = a.nread
      [] a.pc = "apply" -> a.ndraw = a.nread /\ a.napply = a.nread - 1
      [] a.pc = "done" /\ a.result = "Ok" -> a.ndraw = a.nread /\ a.napply = a.nread - 1
      [] OTHER -> a.ndraw = a.nread /\ a.napply = a.nread

nth_read(cmds, n) == IF n <= Len(cmds) THEN cmds[n] ELSE Nop

\* C27 as stated: the reads return the commands in order and Nop afterwards,
\* and an App on a stream without Quit never leaves its loop.
C27_Original ==
    /\ app.nread >= 1 => app.cmd = nth_read(programmed, app.nread)
    /\ ~has_quit(programmed) => app.pc # "done"

\* C27: the n-th read returns the n-th command the stream was constructed
\* with and Nop once they are used up, and takes one command off the stream;
\* an App on a stream without Quit leaves its loop only by a failed draw.
C27_ProgrammedOrder ==
    /\ app.nread >= 1 => app.cmd = nth_read(programmed, app.nread)
    /\ cmd_stream =
        reverse(SubSeq(programmed, min(app.nread, Len(programmed)) + 1, Len(programmed)))
    /\ (~has_quit(programmed) /\ app.pc = "done") => app.result = "Draw"

C27_Witness ==
    /\ programmed = <<Nop, Quit>>
    /\ app.pc = "none"
    /\ app.nread = 4
    /\ app.cmd = Nop
    /\ cmd_stream = <<>>

\* C24: in the default key configuration the character of palette slot s is
\* the character whose Normal-mode key selects slot s; the six characters are
\* pairwise distinct and none is the command-line prefix, and
\* char2palette_id(palette_id2char(s)) is s for each of the six slots.
C24_SlotChars ==
    [][(Len(cmd_line_content) = 0 /\ event'.type = "Key" /\ event'.code = "Char") =>
        /\ \A s \in 0..(NUM_COLORS - 1) :
              /\ event'.ch = palette_id2char(key_config, s) => cmd' = Read(Palette(s))
              /\ char2palette_id(key_config, palette_id2char(key_config, s)) = Some(s)
              /\ palette_id2char(key_config, s) # cmd_line_prefix(key_config)
              /\ \A t \in 0..(NUM_COLORS - 1) :
                    s # t => palette_id2char(key_config, s) # palette_id2char(key_config, t)
        /\ Len(key_config.palette_id2char) = NUM_COLORS]_vars

C24_Witness ==
    /\ event = Char(palette_id2char(key_config, 3))
    /\ cmd = Read(Palette(3))
    /\ cmd_line_content = <<>>
    /\ char2palette_id(key_config, event.ch) = Some(3)

\* C25: the palette always has six slots, by default black, gray (127),
\* white, red, green and blue; setting slot s to c makes color(s) equal c and
\* leaves the other five slots as they were; setting a slot and then setting
\* it back to its former colour restores the whole palette.
C25_PaletteSlots ==
    /\ Len(palette) = 6
    /\ palette_log = <<>> =>
          /\ color(palette, 0) = Rgb(0, 0, 0)
          /\ color(palette, 1) = Rgb(127, 127, 127)
          /\ color(palette, 2) = Rgb(255, 255, 255)
          /\ color(palette, 3) = Rgb(255, 0, 0)
          /\ color(palette, 4) = Rgb(0, 255, 0)
          /\ color(palette, 5) = Rgb(0, 0, 255)
    /\ \A n \in 1..Len(palette_log) :
          n = Len(palette_log) =>
            /\ color(palette, palette_log[n].id) = palette_log[n].rgb
            /\ \A t \in 0..5 :
                  t # palette_log[n].id => color(palette, t) = color(palette_log[n].before, t)
            /\ (/\ n > 1
                /\ palette_log[n - 1].id = palette_log[n].id
                /\ palette_log[n].rgb = color(palette_log[n - 1].before, palette_log[n].id))
                  => palette = palette_log[n - 1].before

C25_Witness ==
    /\ Len(palette_log) = 2
    /\ palette_log[1].id = 0 /\ palette_log[1].rgb = Rgb(3, 4, 5)
    /\ palette_log[2].id = 0 /\ palette_log[2].rgb = Rgb(0, 0, 0)
    /\ palette = Palette_default

\* the distance between two coordinates
dist(a, b) == IF a >= b THEN a - b ELSE b - a

\* the length of the run of d at the head of moves
RECURSIVE run_length(_, _)
run_length(moves, d) ==
    IF moves = <<>> \/ moves[1] # d THEN 0
    ELSE 1 + run_length(Tail(moves), d)

\* the column after the Left and Right moves of a history from column x of
\* an image w wide, run by run: n Right moves end at min(x + n, w - 1) and
\* n Left moves at max(x - n, 0)
RECURSIVE column_after(_, _, _)
column_after(moves, x, w) ==
    IF moves = <<>> THEN x
    ELSE LET n == run_length(moves, moves[1])
             rest == SubSeq(moves, n + 1, Len(moves))
         IN IF moves[1] = "Right"
            THEN column_after(rest, min(x + n, w - 1), w)
            ELSE column_after(rest, IF x >= n THEN x - n ELSE 0, w)

horizontal(d) == d \in {"Left", "Right"}

\* C28: a move_cursor changes at most one coordinate of the cursor, by at most
\* 1: Up and Down leave x, Left and Right leave y, and the image (pixels,
\* dimensions, path) stays as it was; so n Right moves from column x end at
\* min(x + n, width - 1), n Left moves at max(x - n, 0), and on a 1 by 1 image
\* every move leaves the cursor where it was.
C28_OneStepMoves ==
    [][last_op'.name = "move_cursor" /\ hist' # hist =>
        /\ dist(cursor_coord'[1], cursor_coord[1]) + dist(cursor_coord'[2], cursor_coord[2]) <= 1
        /\ last_op'.arg \in {"Up", "Down"} => cursor_coord'[1] = cursor_coord[1]
        /\ last_op'.arg \in {"Left", "Right"} => cursor_coord'[2] = cursor_coord[2]
        /\ image' = image
        /\ cursor_coord'[1] = column_after(SelectSeq(hist', horizontal), 0, width(image))
        /\ (width(image) = 1 /\ height(image) = 1) => cursor_coord' = cursor_coord]_vars

C28_Witness ==
    /\ hist = <<"Right", "Right", "Down", "Left">>
    /\ width(image) = 2
    /\ height(image) = 2
    /\ cursor_coord = <<0, 1>>
    /\ last_op = Op("move_cursor", "Left")

\* the pixels of a file, three bytes each
file_pixels(f) == {SubSeq(f.bytes, 3 * i + 1, 3 * i + 3) : i \in 0..(f.width * f.height - 1)}

\* the colours a Canvas was loaded with or painted with
stored_colors(img) == {FilePixel(c[1], c[2]) : c \in cells(img)} \cup PaintColors

\* C29: in every reachable state of a Canvas every cell of the stored image
\* has its foreground equal to its background, so the bytes a save writes
\* are the loaded and painted colours, cell by cell, and the inverted colour
\* of the cursor is in no saved file.
C29_StoredFgIsBg ==
    /\ \A c \in cells(image) : cell(image.data, c).fg = cell(image.data, c).bg
    /\ \A p \in Paths :
          fs[p].frame_ok =>
            /\ file_pixels(fs[p]) \subseteq stored_colors(image)
            /\ \A c \in stored_colors(image) : opposite(c) \notin file_pixels(fs[p])
    /\ (last_op.name \in {"save", "save_as"} /\ result.ok /\ fs[image.path].frame_ok) =>
          \A c \in cells(image) :
              SubSeq(fs[image.path].bytes,
                     3 * (c[2] * width(image) + c[1]) + 1,
                     3 * (c[2] * width(image) + c[1]) + 3) = cell(image.data, c).fg

C29_Witness ==
    /\ last_op = Op("save_as", "q")
    /\ result = Ok
    /\ npaint = 1
    /\ cursor_coord = <<1, 1>>
    /\ cell(image.data, cursor_coord) = Span(Rgb(0, 0, 0))
    /\ fs["q"].frame_ok
    /\ Rgb(0, 0, 0) \in file_pixels(fs["q"])

\* the image of one cell of colour c
one_cell(c) == [path |-> OpenedPath, width |-> 1, height |-> 1, data |-> Image_data(c, 1, 1)]

\* C30: for every 8-bit colour c, opposite(c) is (255 - r, 255 - g, 255 - b)
\* with every channel within 0..255, opposite(opposite(c)) is c, and
\* opposite(c) differs from c in every channel, so that the foreground of the
\* cursor's cell is never its background.
C30_Opposite ==
    /\ inverted.n % 2 = 1 =>
          /\ inverted.val = <<255 - inverted.of[1], 255 - inverted.of[2], 255 - inverted.of[3]>>
          /\ \A i \in 1..3 : inverted.val[i] \in 0..255 /\ inverted.val[i] # inverted.of[i]
          /\ LET drawn == cell(into_text_with_cursor(one_cell(inverted.of), <<0, 0>>), <<0, 0>>)
             IN  drawn.fg # drawn.bg /\ drawn.fg = inverted.val /\ drawn.bg = inverted.of
    /\ (inverted.n > 0 /\ inverted.n % 2 = 0) => inverted.val = inverted.of

C30_Witness ==
    /\ inverted.n = 2
    /\ inverted.of = Rgb(0, 255, 3)
    /\ inverted.val = Rgb(0, 255, 3)

\* the results of the four patterns on a line, in the order they are tried
pattern_results(s) ==
    <<try_parse_quit(key_config, s), try_parse_save(key_config, s),
      try_parse_save_as(key_config, s), try_parse_set_palette(key_config, s)>>

\* C31: the patterns are tried in the order quit, save, save-as, set-palette
\* and the first match wins; no line matches more than one of the four, so
\* the instruction is that of whichever pattern matches, in any order of
\* trying them, and Nop if none does.
C31_OneParseAtMost ==
    parsed.status = "Ok" =>
        LET res == pattern_results(text(input))
            matching == {i \in 1..4 : res[i].some}
        IN  /\ Cardinality(matching) <= 1
            /\ \A i \in matching : parsed.cmd = res[i].val
            /\ matching = {} => parsed.cmd = Nop
            /\ parsed.cmd =
                  unwrap_or(or_else(res[4], or_else(res[3], or_else(res[2], res[1]))), Nop)

C31_Witness ==
    /\ input.prefix = <<":">>
    /\ input.tokens = <<T_w, T_q>>
    /\ sum(input.gaps, 1) > 1
    /\ parsed = Parsed(SaveAs(T_q))
    /\ ~try_parse_quit(key_config, text(input)).some
    /\ ~try_parse_save(key_config, text(input)).some

\* the characters of the keys i..j of a history of typed keys
RECURSIVE typed_text(_, _, _)
typed_text(h, i, j) == IF i > j THEN <<>> ELSE <<h[i].key.ch>> \o typed_text(h, i + 1, j)

\* keys i..j of the history are the prefix key pressed in Normal mode, then
\* character keys only, then Enter
is_typed_line(h, i, j) ==
    /\ i < j
    /\ h[i].before = <<>>
    /\ h[i].key = Char(":")
    /\ \A k \in (i + 1)..(j - 1) : h[k].key.code = "Char"
    /\ h[j].key = Enter

\* C32: from Normal mode the prefix key, then the characters of a text L one
\* key at a time, then Enter emit Nop for every key before Enter and
\* parse(prefix + L) at Enter, and end in Normal mode with the line empty;
\* ':' 'q' Enter emit Nop, Nop, Quit, while 'q' alone in Normal mode emits
\* Quit at once.
C32_TypedLine ==
    /\ \A i \in 1..Len(hist), j \in 1..Len(hist) :
          is_typed_line(hist, i, j) =>
            /\ \A k \in i..(j - 1) : hist[k].cmd = Read(Nop)
            /\ hist[j].cmd = Read(parse_cmd_line(KeyConfig_default,
                                   <<":">> \o typed_text(hist, i + 1, j - 1)))
            /\ hist[j].after = <<>>
            /\ Mode(hist[j].after) = "Normal"
            /\ typed_text(hist, i + 1, j - 1) = <<"q">> => hist[j].cmd = Read(Quit)
    /\ \A i \in 1..Len(hist) :
          (hist[i].before = <<>> /\ hist[i].key = Char("q")) =>
              hist[i].cmd = Read(Quit) /\ hist[i].after = <<>>

C32_Witness ==
    /\ Len(hist) = 5
    /\ is_typed_line(hist, 1, 5)
    /\ typed_text(hist, 2, 4) = <<"w", " ", "p">>
    /\ cmd = Read(SaveAs(<<"p">>))
    /\ cmd_line_content = <<>>

\* C33: in CommandLine mode a character key followed by Backspace leaves the
\* line and the mode as they were before the character, and both keys emit
\* Nop (":" -> ":s" -> ":").
C33_TypeThenBackspace ==
    \A i \in 1..(Len(hist) - 1) :
        (/\ Mode(hist[i].before) = "CommandLine"
         /\ hist[i].key.code = "Char"
         /\ hist[i + 1].key = Backspace) =>
            /\ hist[i].after = Append(hist[i].before, hist[i].key.ch)
            /\ hist[i + 1].before = hist[i].after
            /\ hist[i + 1].after = hist[i].before
            /\ Mode(hist[i + 1].after) = "CommandLine"
            /\ hist[i].cmd = Read(Nop)
            /\ hist[i + 1].cmd = Read(Nop)

C33_Witness ==
    /\ Len(hist) = 3
    /\ hist[1].key = Char(":")
    /\ hist[2].key = Char("s")
    /\ hist[2].after = <<":", "s">>
    /\ hist[3].key = Backspace
    /\ cmd_line_content = <<":">>
    /\ cmd = Read(Nop)

====
